---------------------------- MODULE Spec2Model ----------------------------
(***************************************************************************)
(* Home-location estimation (twitter_homes): the dbscan() measure          *)
(* (preprocessing, DBSCAN*, cluster aggregates, home-cluster selection)    *)
(* and the main() driver that appends one row per user to the output file. *)
(*                                                                         *)
(* Units.  Coordinates are integers in units of 1e-4 degree, so that       *)
(* EPS = 0.0004 is 4.  A created_at string is the record [day, hour] it    *)
(* spells (day 0 is a Monday); parsing it gives the instant in hours.      *)
(* An optional value (Python None or a value) is <<>> or <<v>>.            *)
(***************************************************************************)
EXTENDS Integers, Sequences, FiniteSets, TLC

VARIABLES
    tweets_df,           \* dbscan(): the argument, a sequence of tweets
    df,                  \* dbscan(): the working DataFrame
    pc,                  \* dbscan(): position in the function body
    dbscan_debug_info,   \* dbscan(): the diagnostic counters
    results,             \* dbscan(): dbscan_model["cluster_id"]
    cluster_aggregates,  \* dbscan(): create_cluster_aggregates' table
    ret,                 \* dbscan(): the returned dict, <<>> before return
    calls,               \* dbscan(): the pipeline stages invoked so far
    geotweets,           \* main(): user ids that have rows in the database
    output_file,         \* main(): None (no file) or Some(its rows)
    user_ids,            \* main(): the ids the running loop has yet to visit
    status,              \* main(): "idle", "running", "done" or "raised"
    run,                 \* main(): history of the runs (see NoRun)
    measures_,           \* run_all_measures(): the list of measures
    measure_results,     \* run_all_measures(): the dict `results`
    measure_i,           \* run_all_measures(): measures the loop has run
    measure_pc           \* run_all_measures(): "idle", "loop" or "returned"

dbscan_vars == <<tweets_df, df, pc, dbscan_debug_info, results,
                 cluster_aggregates, ret, calls>>
measure_vars == <<measures_, measure_results, measure_i, measure_pc>>
main_vars == <<geotweets, output_file, user_ids, status, run, measure_vars>>
vars == <<tweets_df, df, pc, dbscan_debug_info, results, cluster_aggregates,
          ret, calls, geotweets, output_file, user_ids, status, run,
          measures_, measure_results, measure_i, measure_pc>>

None == <<>>
Some(v) == <<v>>

Range(s) == {s[i] : i \in 1..Len(s)}

RECURSIVE SumOver(_, _)
SumOver(S, f) ==
    IF S = {} THEN 0
    ELSE LET e == CHOOSE e \in S : TRUE IN f[e] + SumOver(S \ {e}, f)

(***************************************************************************)
(* Program constants                                                       *)
(***************************************************************************)
EPS == 4
MIN_POINTS == 3
SECONDS_PER_HOUR == 3600
DBSCAN_CLUSTER_TYPES == <<"core", "boundary", "noise">>

(***************************************************************************)
(* Bounds of the model                                                     *)
(***************************************************************************)
MaxClusters == 3
MaxTweets == 3
MaxBurst == 1
MaxUsers == 3
MaxRuns == 2
MaxMeasures == 3

Users == 1..MaxUsers

(***************************************************************************)
(* merge_dicts: the first dict updated with the second                     *)
(***************************************************************************)
merge_dicts(a, b) ==
    [k \in (DOMAIN a) \cup (DOMAIN b) |-> IF k \in DOMAIN b THEN b[k] ELSE a[k]]

InitialDebugInfo ==
    [clustering_attempted |-> 0,
     n_dbscan_core_tweets |-> None,
     n_dbscan_boundary_tweets |-> None,
     n_dbscan_noise_tweets |-> None]

(***************************************************************************)
(* Home selector                                                           *)
(***************************************************************************)
PyMax(S) == CHOOSE v \in S : \A w \in S : w <= v
PyMin(S) == CHOOSE v \in S : \A w \in S : v <= w

Measure(measure, S) == IF measure = "max" THEN PyMax(S) ELSE PyMin(S)

\* unique_cluster_id under a plausible slip: any row attaining the extreme
\* value is returned, whether or not it is the only one.
unique_cluster_id_first(aggs, column, measure) ==
    LET value == Measure(measure, {aggs[i][column] : i \in 1..Len(aggs)})
        first == PyMin({i \in 1..Len(aggs) : aggs[i][column] = value})
    IN  Some(aggs[first].cluster_id)

\* The cluster_id of the row holding the max/min of a column when exactly one
\* row holds it, None otherwise (the function falls off its end).
unique_cluster_id(aggs, column, measure) ==
    LET value == Measure(measure, {aggs[i][column] : i \in 1..Len(aggs)})
        rows == {i \in 1..Len(aggs) : aggs[i][column] = value}
    IN  IF Cardinality(rows) = 1
        THEN Some(aggs[PyMin(rows)].cluster_id)
        ELSE None

Criteria ==
    << [column |-> "count", measure |-> "max",
        reason |-> "only one max cluster"],
       [column |-> "max_dist_from_centroid", measure |-> "min",
        reason |-> "cluster with minimum distance"],
       [column |-> "time_range", measure |-> "max",
        reason |-> "cluster with maximum time range"] >>

RECURSIVE determine_from(_, _)
determine_from(aggs, k) ==
    IF k > Len(Criteria) THEN <<None, None>>
    ELSE LET home_cluster_id ==
                 unique_cluster_id(aggs, Criteria[k].column, Criteria[k].measure)
         IN  IF home_cluster_id # None
             THEN <<home_cluster_id, Some(Criteria[k].reason)>>
             ELSE determine_from(aggs, k + 1)

\* The selector with the dispersion and time-range criteria swapped.
determine_home_cluster_swapped(aggs) ==
    LET order == <<1, 3, 2>>
        try(k) == unique_cluster_id(aggs, Criteria[order[k]].column,
                                    Criteria[order[k]].measure)
    IN  IF try(1) # None THEN <<try(1), Some(Criteria[order[1]].reason)>>
        ELSE IF try(2) # None THEN <<try(2), Some(Criteria[order[2]].reason)>>
        ELSE IF try(3) # None THEN <<try(3), Some(Criteria[order[3]].reason)>>
        ELSE <<None, None>>

\* The selector with the dispersion and time-range criteria applied to the
\* clusters tied for the maximum count only.
determine_home_cluster_among_tied(aggs) ==
    LET by_count == unique_cluster_id(aggs, "count", "max")
        top == PyMax({aggs[i].count : i \in 1..Len(aggs)})
        isTied(a) == a.count = top
        tied == SelectSeq(aggs, isTied)
        by_dist == unique_cluster_id(tied, "max_dist_from_centroid", "min")
        by_time == unique_cluster_id(tied, "time_range", "max")
    IN  IF by_count # None THEN <<by_count, Some(Criteria[1].reason)>>
        ELSE IF by_dist # None THEN <<by_dist, Some(Criteria[2].reason)>>
        ELSE IF by_time # None THEN <<by_time, Some(Criteria[3].reason)>>
        ELSE <<None, None>>

determine_home_cluster(aggs) == determine_from(aggs, 1)

(***************************************************************************)
(* Preprocessing: burst tweets, localisation, home period                  *)
(***************************************************************************)
HOME_MAX_WEEKDAY == 3
HOME_MIN_HOUR == 9
HOURS_PER_DAY == 24
DAYS_PER_WEEK == 7

\* The grouping with the coordinates left out of the key.
BurstKeyTimeOnly(r) == <<r.created_at.day, r.created_at.hour>>

\* BURST_TWEETS_GROUPBY_COLUMNS of a row.
BurstKey(r) == <<r.created_at.day, r.created_at.hour, r.lon, r.lat>>

\* groupby sorts the group keys; tuples compare field by field.  (pandas
\* compares created_at as text; the model compares it as [day, hour].)
RECURSIVE KeyLess(_, _)
KeyLess(a, b) ==
    IF Len(a) = 0 \/ Len(b) = 0 THEN Len(a) < Len(b)
    ELSE IF Head(a) # Head(b) THEN Head(a) < Head(b)
    ELSE KeyLess(Tail(a), Tail(b))

RECURSIVE SortKeys(_)
SortKeys(K) ==
    IF K = {} THEN <<>>
    ELSE LET least == CHOOSE k \in K : \A o \in K \ {k} : KeyLess(k, o)
         IN  <<least>> \o SortKeys(K \ {least})

\* df.groupby(BURST_TWEETS_GROUPBY_COLUMNS).first().reset_index(): one row
\* per group key, in key order, holding the first row of the group.
GroupbyFirst(rows) ==
    LET keys == SortKeys({BurstKey(rows[i]) : i \in 1..Len(rows)})
    IN  [k \in 1..Len(keys) |->
            rows[CHOOSE i \in 1..Len(rows) :
                    /\ BurstKey(rows[i]) = keys[k]
                    /\ \A j \in 1..(i - 1) : BurstKey(rows[j]) # keys[k]]]

\* timezonefinder.timezone_at: the zone name of a location, None at sea.
\* The model's world: open sea west of longitude 0, then New York's zone,
\* then Tokyo's from longitude 500 on.
timezone_at(lon, lat) ==
    IF lon < 0 THEN None
    ELSE IF lon < 500 THEN Some("America/New_York")
    ELSE Some("Asia/Tokyo")

\* pytz.timezone(name) as its offset from UTC in hours (standard time).
utcoffset(tz_name) == IF tz_name = "America/New_York" THEN -5 ELSE 9

\* dateutil.parser.parse(created_at): the instant, in hours, at offset +0000.
parse(created_at) ==
    [utc |-> created_at.day * HOURS_PER_DAY + created_at.hour, offset |-> 0]

\* DatetimeLocalizer.get_localized_dt: the same instant in the zone of the
\* tweet's location, or the parsed datetime when no zone is found.
get_localized_dt(tweet) ==
    LET dt == parse(tweet.created_at)
        tz == timezone_at(tweet.lon, tweet.lat)
    IN  IF tz = None THEN dt ELSE [dt EXCEPT !.offset = utcoffset(tz[1])]

weekday(dt) == ((dt.utc + dt.offset) \div HOURS_PER_DAY) % DAYS_PER_WEEK
hour(dt) == (dt.utc + dt.offset) % HOURS_PER_DAY

\* The home period with Friday let in.
InHomePeriodFriday(dt) ==
    weekday(dt) <= HOME_MAX_WEEKDAY + 1 /\ hour(dt) >= HOME_MIN_HOUR

\* The two subsets of dbscan(): weekday <= 3, then hour >= 9.
InHomePeriod(dt) ==
    weekday(dt) <= HOME_MAX_WEEKDAY /\ hour(dt) >= HOME_MIN_HOUR

HomePeriodFilter(rows) ==
    LET keep(r) == InHomePeriod(r.dt) IN SelectSeq(rows, keep)

\* The terminal decision with a null id in place of the -1 sentinel.
NoHomeNull(reason) ==
    [home_cluster_id |-> None,
     home_cluster_reason |-> Some(reason),
     home_cluster_centroid_lon |-> None,
     home_cluster_centroid_lat |-> None,
     home_cluster_count |-> None]

NoHome(reason) ==
    [home_cluster_id |-> Some(-1),
     home_cluster_reason |-> Some(reason),
     home_cluster_centroid_lon |-> None,
     home_cluster_centroid_lat |-> None,
     home_cluster_count |-> None]

\* dbscan(), from its entry to the removal of burst tweets.
RemoveBurstTweets ==
    /\ pc = "start"
    /\ LET n_orig == Len(tweets_df)
           deduplicated == GroupbyFirst(tweets_df)
           n_deduplicated == Len(deduplicated)
       IN  /\ df' = deduplicated
           /\ dbscan_debug_info' =
                  merge_dicts(InitialDebugInfo,
                              [n_burst_tweets |-> n_orig - n_deduplicated])
    /\ pc' = "deduplicated"
    /\ UNCHANGED <<tweets_df, results, cluster_aggregates, ret, calls>>
    /\ UNCHANGED main_vars

\* The home-period step without the test for an empty frame: clustering is
\* attempted on whatever is left.
HomePeriodNoEmptyTest ==
    /\ pc = "deduplicated"
    /\ LET localized ==
               [i \in 1..Len(df) |->
                   merge_dicts(df[i], [dt |-> get_localized_dt(df[i])])]
           kept == HomePeriodFilter(localized)
       IN  /\ df' = kept
           /\ dbscan_debug_info' =
                  [merge_dicts(dbscan_debug_info,
                               [n_home_period_tweets |-> Len(kept)])
                   EXCEPT !.clustering_attempted = 1]
    /\ pc' = "filtered"
    /\ UNCHANGED <<tweets_df, results, cluster_aggregates, ret, calls>>
    /\ UNCHANGED main_vars

\* dbscan(), from the localisation of datetimes to the empty-frame return or
\* to clustering_attempted = 1.
HomePeriod ==
    /\ pc = "deduplicated"
    /\ LET localized ==
               [i \in 1..Len(df) |->
                   merge_dicts(df[i], [dt |-> get_localized_dt(df[i])])]
           kept == HomePeriodFilter(localized)
           info == merge_dicts(dbscan_debug_info,
                               [n_home_period_tweets |-> Len(kept)])
       IN  /\ df' = kept
           /\ IF Len(kept) = 0
              THEN /\ dbscan_debug_info' = info
                   /\ ret' = Some(merge_dicts(info,
                                 NoHome("no tweets in desired time range")))
                   /\ pc' = "returned"
              ELSE /\ dbscan_debug_info' =
                          [info EXCEPT !.clustering_attempted = 1]
                   /\ ret' = ret
                   /\ pc' = "filtered"
    /\ UNCHANGED <<tweets_df, results, cluster_aggregates, calls>>
    /\ UNCHANGED main_vars

(***************************************************************************)
(* DBSCAN (turicreate.dbscan.create with radius EPS, min_core_neighbors    *)
(* MIN_POINTS, euclidean distance) over the rows' (lon, lat)               *)
(***************************************************************************)
dist2(a, b) == (b.lat - a.lat) * (b.lat - a.lat) + (b.lon - a.lon) * (b.lon - a.lon)

\* The other rows within the radius of row i.
Neighbors(rows, i) ==
    {j \in (1..Len(rows)) \ {i} : dist2(rows[i], rows[j]) <= EPS * EPS}

\* A core point has at least min_core_neighbors other rows within the radius.
CorePoints(rows) ==
    {i \in 1..Len(rows) : Cardinality(Neighbors(rows, i)) >= MIN_POINTS}

\* The connected component of S in the graph nb restricted to core points.
RECURSIVE Expand(_, _, _)
Expand(nb, core, S) ==
    LET T == S \cup (core \cap UNION {nb[i] : i \in S})
    IN  IF T = S THEN S ELSE Expand(nb, core, T)

\* The type counts with boundary points left out.
TypeCountNoBoundary(res, cluster_type) ==
    IF cluster_type = "boundary" THEN 0
    ELSE Cardinality({i \in 1..Len(res) : res[i].type = cluster_type})

\* dict(results["type"].value_counts()) read with a default of 0.
TypeCount(res, cluster_type) ==
    Cardinality({i \in 1..Len(res) : res[i].type = cluster_type})

\* dbscan_model["cluster_id"]: one row per input row, here in input order,
\* with the component number of a core point, the cluster of the nearest
\* core neighbour of a boundary point, and no cluster for noise.
DbscanCreate(rows) ==
    LET core == CorePoints(rows)
        nb == [i \in 1..Len(rows) |-> Neighbors(rows, i)]
        first == [i \in core |-> PyMin(Expand(nb, core, {i}))]
        firsts == {first[i] : i \in core}
        label == [i \in core |-> Cardinality({f \in firsts : f < first[i]})]
        coreNear == [i \in 1..Len(rows) |-> nb[i] \cap core]
        nearest(i) ==
            PyMin({j \in coreNear[i] :
                      \A k \in coreNear[i] :
                          dist2(rows[i], rows[j]) <= dist2(rows[i], rows[k])})
    IN  [i \in 1..Len(rows) |->
            IF i \in core
            THEN [row_id |-> i - 1, cluster_id |-> Some(label[i]), type |-> "core"]
            ELSE IF coreNear[i] # {}
            THEN [row_id |-> i - 1, cluster_id |-> Some(label[nearest(i)]),
                  type |-> "boundary"]
            ELSE [row_id |-> i - 1, cluster_id |-> None, type |-> "noise"]]

\* dbscan(), from the call of the clusterer to the "no clusters" return.
Cluster ==
    /\ pc = "filtered"
    /\ LET res == DbscanCreate(df)
           info == [dbscan_debug_info EXCEPT
                       !.n_dbscan_core_tweets = Some(TypeCount(res, "core")),
                       !.n_dbscan_boundary_tweets = Some(TypeCount(res, "boundary")),
                       !.n_dbscan_noise_tweets = Some(TypeCount(res, "noise"))]
       IN  /\ results' = res
           /\ dbscan_debug_info' = info
           /\ IF \A i \in 1..Len(res) : res[i].cluster_id = None
              THEN /\ ret' = Some(merge_dicts(info, NoHome("no clusters")))
                   /\ pc' = "returned"
              ELSE /\ ret' = ret
                   /\ pc' = "clustered"
    /\ calls' = calls \cup {"dbscan.create"}
    /\ UNCHANGED <<tweets_df, df, cluster_aggregates>>
    /\ UNCHANGED main_vars

(***************************************************************************)
(* Cluster aggregates.  A mean is kept as CentroidScale times its value,   *)
(* exact for clusters whose size divides CentroidScale; the great-circle   *)
(* distance is kept as the squared planar distance in those units.         *)
(***************************************************************************)
CentroidScale == 3 * 4 * 5

haversine(lat1, lon1, lat2, lon2) ==
    (CentroidScale * lat2 - lat1) * (CentroidScale * lat2 - lat1)
        + (CentroidScale * lon2 - lon1) * (CentroidScale * lon2 - lon1)

create_cluster_aggregates(df_clusters) ==
    LET ids == {df_clusters[i].cluster_id : i \in 1..Len(df_clusters)}
        members == [c \in ids |->
                       {i \in 1..Len(df_clusters) : df_clusters[i].cluster_id = c}]
        mean(c, column) ==
            SumOver(members[c], [i \in members[c] |-> df_clusters[i][column]])
                * (CentroidScale \div Cardinality(members[c]))
        centroid == [c \in ids |-> <<mean(c, "lon"), mean(c, "lat")>>]
        aggregate(c) ==
            [cluster_id |-> c,
             centroid_lon |-> centroid[c][1],
             centroid_lat |-> centroid[c][2],
             time_range |->
                 (PyMax({df_clusters[i].dt.utc : i \in members[c]})
                     - PyMin({df_clusters[i].dt.utc : i \in members[c]}))
                 * SECONDS_PER_HOUR,
             max_dist_from_centroid |->
                 PyMax({haversine(centroid[c][1], centroid[c][2],
                                  df_clusters[i].lon, df_clusters[i].lat) :
                        i \in members[c]}),
             count |-> Cardinality(members[c])]
        sorted == SortKeys({<<c>> : c \in ids})
    IN  [k \in 1..Len(sorted) |-> aggregate(sorted[k][1])]

\* The aggregation step keeping every clustered point, boundary points
\* included, instead of the core points only.
AggregateWithBoundary ==
    /\ pc = "clustered"
    /\ LET merged == [i \in 1..Len(df) |->
                         merge_dicts(df[i], [cluster_id |-> results[i].cluster_id,
                                             type |-> results[i].type])]
           isClustered(r) == r.type # "noise"
           clustered == SelectSeq(merged, isClustered)
           df_clusters == [i \in 1..Len(clustered) |->
                              [clustered[i] EXCEPT
                                  !.cluster_id = clustered[i].cluster_id[1]]]
       IN  cluster_aggregates' = create_cluster_aggregates(df_clusters)
    /\ calls' = calls \cup {"create_cluster_aggregates"}
    /\ pc' = "aggregated"
    /\ UNCHANGED <<tweets_df, df, dbscan_debug_info, results, ret>>
    /\ UNCHANGED main_vars

\* dbscan(), from the merge of the tweets with the clustering results to the
\* aggregate table of the core points.
Aggregate ==
    /\ pc = "clustered"
    /\ LET merged == [i \in 1..Len(df) |->
                         merge_dicts(df[i], [cluster_id |-> results[i].cluster_id,
                                             type |-> results[i].type])]
           isCore(r) == r.type = "core"
           core == SelectSeq(merged, isCore)
           df_clusters == [i \in 1..Len(core) |->
                              [core[i] EXCEPT !.cluster_id = core[i].cluster_id[1]]]
       IN  cluster_aggregates' = create_cluster_aggregates(df_clusters)
    /\ calls' = calls \cup {"create_cluster_aggregates"}
    /\ pc' = "aggregated"
    /\ UNCHANGED <<tweets_df, df, dbscan_debug_info, results, ret>>
    /\ UNCHANGED main_vars

\* The decision step reading the home cluster's figures off the first row of
\* the aggregate table instead of the row of the home cluster.
DetermineHomeFirstRow ==
    /\ pc = "aggregated"
    /\ LET decision == determine_home_cluster(cluster_aggregates)
           home_cluster_id == decision[1]
           undecided ==
               [home_cluster_id |-> home_cluster_id,
                home_cluster_reason |-> decision[2],
                home_cluster_centroid_lon |-> None,
                home_cluster_centroid_lat |-> None,
                home_cluster_count |-> None]
           home_cluster == cluster_aggregates[1]
           home_decision ==
               IF home_cluster_id # None
               THEN [undecided EXCEPT
                        !.home_cluster_centroid_lon = Some(home_cluster.centroid_lon),
                        !.home_cluster_centroid_lat = Some(home_cluster.centroid_lat),
                        !.home_cluster_count = Some(home_cluster.count)]
               ELSE undecided
       IN  ret' = Some(merge_dicts(dbscan_debug_info, home_decision))
    /\ calls' = calls \cup {"determine_home_cluster"}
    /\ pc' = "returned"
    /\ UNCHANGED <<tweets_df, df, dbscan_debug_info, results, cluster_aggregates>>
    /\ UNCHANGED main_vars

\* dbscan(), from the call of determine_home_cluster to the return.
DetermineHome ==
    /\ pc = "aggregated"
    /\ LET decision == determine_home_cluster(cluster_aggregates)
           home_cluster_id == decision[1]
           undecided ==
               [home_cluster_id |-> home_cluster_id,
                home_cluster_reason |-> decision[2],
                home_cluster_centroid_lon |-> None,
                home_cluster_centroid_lat |-> None,
                home_cluster_count |-> None]
           home_cluster ==
               cluster_aggregates[
                   PyMin({i \in 1..Len(cluster_aggregates) :
                          Some(cluster_aggregates[i].cluster_id) = home_cluster_id})]
           home_decision ==
               IF home_cluster_id # None
               THEN [undecided EXCEPT
                        !.home_cluster_centroid_lon = Some(home_cluster.centroid_lon),
                        !.home_cluster_centroid_lat = Some(home_cluster.centroid_lat),
                        !.home_cluster_count = Some(home_cluster.count)]
               ELSE undecided
       IN  ret' = Some(merge_dicts(dbscan_debug_info, home_decision))
    /\ calls' = calls \cup {"determine_home_cluster"}
    /\ pc' = "returned"
    /\ UNCHANGED <<tweets_df, df, dbscan_debug_info, results, cluster_aggregates>>
    /\ UNCHANGED main_vars

DbscanEntry ==
    /\ pc = "start"
    /\ df = <<>>
    /\ results = <<>>
    /\ cluster_aggregates = <<>>
    /\ dbscan_debug_info = InitialDebugInfo
    /\ ret = None
    /\ calls = {}

(***************************************************************************)
(* main(): the driver.  A user id is an int or, when it comes straight     *)
(* from the command line, a str; Python never finds an int equal to a str. *)
(* An id is the pair <<type, value>>; a collection of ids is a sequence,   *)
(* from which the loop may take the ids in any order.                      *)
(***************************************************************************)
IntId(u) == <<"int", u>>
StrId(u) == <<"str", u>>
ValueOf(id) == id[2]

\* History of the runs: how many were started and, of the current one, the
\* ids its loop was to visit, the rows of the output file when it entered the
\* loop, the ids it has visited, in order, and the id (if any) whose
\* processing raised.
NoRun ==
    [n |-> 0, ids |-> <<>>, rows_at_start |-> <<>>, visited |-> <<>>, raised |-> None]

MainIdle ==
    /\ geotweets = {}
    /\ output_file = None
    /\ user_ids = <<>>
    /\ status = "idle"
    /\ run = NoRun
    /\ measures_ = <<>>
    /\ measure_results = <<>>
    /\ measure_i = 0
    /\ measure_pc = "idle"

\* int(row["user_id"]) for the rows read back from the output file.
seen_ids(rows) == {IntId(rows[i].user_id) : i \in 1..Len(rows)}

\* set(user_ids) - seen_ids
Remaining(ids, rows) ==
    LET unseen(id) == id \notin seen_ids(rows) IN SelectSeq(ids, unseen)

\* run_all_measures on the user's tweets: the merged record, of which the
\* driver's state keeps the user_id measure (tweets_df.iloc[0]["user_id"]).
run_all_measures(id) == [user_id |-> ValueOf(id)]

\* main(), from its entry to the top of the loop over user_ids.
Main(ids) ==
    /\ status # "running"
    /\ run.n < MaxRuns
    /\ IF output_file # None
       THEN /\ user_ids' = Remaining(ids, output_file[1])
            /\ output_file' = output_file
       ELSE /\ user_ids' = ids
            /\ output_file' = Some(<<>>)
    /\ status' = "running"
    /\ run' = [n |-> run.n + 1,
               ids |-> user_ids',
               rows_at_start |-> output_file'[1],
               visited |-> <<>>,
               raised |-> None]
    /\ UNCHANGED geotweets
    /\ UNCHANGED dbscan_vars
    /\ UNCHANGED measure_vars

\* The ints of a file of user ids, as the collection handed to main().
IdsOfFile(S) ==
    LET listed(u) == u \in S
    IN  SelectSeq([u \in 1..MaxUsers |-> u], listed)

\* __main__ with --input naming a file of user ids, one per line.
MainFromFile ==
    \E S \in (SUBSET Users) \ {{}} :
        Main([k \in 1..Len(IdsOfFile(S)) |-> IntId(IdsOfFile(S)[k])])

\* __main__ with --input being a user id itself.
MainFromArgument ==
    \E u \in Users : Main(<<StrId(u)>>)

Without(s, k) == SubSeq(s, 1, k - 1) \o SubSeq(s, k + 1, Len(s))

\* One pass of the loop body without an exception: query, measures, row.
ProcessUser ==
    /\ status = "running"
    /\ \E k \in 1..Len(user_ids) :
          LET id == user_ids[k]
          IN  /\ user_ids' = Without(user_ids, k)
              /\ output_file' =
                     IF ValueOf(id) \in geotweets
                     THEN Some(Append(output_file[1], run_all_measures(id)))
                     ELSE output_file
              /\ run' = [run EXCEPT !.visited = Append(@, id)]
    /\ UNCHANGED <<geotweets, status>>
    /\ UNCHANGED dbscan_vars
    /\ UNCHANGED measure_vars

\* A loop body whose exception is swallowed: the loop goes on to the next id.
ProcessUserRaisesAndContinues ==
    /\ status = "running"
    /\ \E k \in 1..Len(user_ids) :
          /\ user_ids' = Without(user_ids, k)
          /\ run' = [run EXCEPT !.raised = Some(user_ids[k])]
    /\ UNCHANGED <<geotweets, output_file, status>>
    /\ UNCHANGED dbscan_vars
    /\ UNCHANGED measure_vars

\* One pass of the loop body in which the query or a measure raises: nothing
\* catches the exception, the with-block closes the file and main() ends.
ProcessUserRaises ==
    /\ status = "running"
    /\ \E k \in 1..Len(user_ids) :
          /\ user_ids' = <<>>
          /\ run' = [run EXCEPT !.raised = Some(user_ids[k])]
    /\ status' = "raised"
    /\ UNCHANGED <<geotweets, output_file>>
    /\ UNCHANGED dbscan_vars
    /\ UNCHANGED measure_vars

\* The loop has run out of ids: main() returns.
MainReturns ==
    /\ status = "running"
    /\ user_ids = <<>>
    /\ status' = "done"
    /\ UNCHANGED <<geotweets, output_file, user_ids, run>>
    /\ UNCHANGED dbscan_vars
    /\ UNCHANGED measure_vars

(***************************************************************************)
(* run_all_measures(): the loop that merges the measures' results.  A      *)
(* measure is the record of its __name__, whether it returns a dict, and   *)
(* what it returns on the user's tweets.                                   *)
(***************************************************************************)
\* The measure's result as a dict: a scalar is filed under the measure's name.
return_value(measure) ==
    IF ~measure.is_dict
    THEN [k \in {measure.name} |-> measure.returns]
    ELSE measure.returns

\* One pass of the loop: results = {**results, **return_value}.
RunMeasure ==
    /\ measure_pc = "loop"
    /\ measure_i < Len(measures_)
    /\ measure_results' =
           merge_dicts(measure_results, return_value(measures_[measure_i + 1]))
    /\ measure_i' = measure_i + 1
    /\ UNCHANGED <<measures_, measure_pc>>
    /\ UNCHANGED <<geotweets, output_file, user_ids, status, run>>
    /\ UNCHANGED dbscan_vars

\* The loop has run every measure: return results.
RunAllMeasuresReturns ==
    /\ measure_pc = "loop"
    /\ measure_i = Len(measures_)
    /\ measure_pc' = "returned"
    /\ UNCHANGED <<measures_, measure_results, measure_i>>
    /\ UNCHANGED <<geotweets, output_file, user_ids, status, run>>
    /\ UNCHANGED dbscan_vars

(***************************************************************************)
(* Spec: up to MaxRuns runs of main() against one output file and one      *)
(* database, in which any subset of the users 1..MaxUsers has tweets.      *)
(***************************************************************************)
Init ==
    /\ geotweets \in SUBSET Users
    /\ output_file = None
    /\ user_ids = <<>>
    /\ status = "idle"
    /\ run = NoRun
    /\ measures_ = <<>>
    /\ measure_results = <<>>
    /\ measure_i = 0
    /\ measure_pc = "idle"
    /\ tweets_df = <<>>
    /\ DbscanEntry

Next ==
    \/ MainFromFile
    \/ MainFromArgument
    \/ ProcessUser
    \/ ProcessUserRaises
    \/ MainReturns

Spec == Init /\ [][Next]_vars

(***************************************************************************)
(* SpecPre: the preprocessing of dbscan() on every frame of up to          *)
(* MaxTweets tweets of one user, in any order and with repetitions, drawn  *)
(* from two days (Monday, Friday), three hours of the day and three        *)
(* places (at sea, New York, Tokyo).                                       *)
(***************************************************************************)
PreCreatedAt == [day : {0, 4}, hour : {2, 10, 22}]
PrePlaces == {<<-10, 0>>, <<10, 0>>, <<600, 0>>}

Tweet(created_at, place) ==
    [created_at |-> created_at, lon |-> place[1], lat |-> place[2], user_id |-> 1]

PreTweets == {Tweet(c, p) : c \in PreCreatedAt, p \in PrePlaces}

InitPre ==
    /\ tweets_df \in UNION {[1..n -> PreTweets] : n \in 1..MaxTweets}
    /\ DbscanEntry
    /\ MainIdle

NextPre == RemoveBurstTweets \/ HomePeriod

SpecPre == InitPre /\ [][NextPre]_vars

(***************************************************************************)
(* SpecDbscan: dbscan() from entry to return on frames made of any subset  *)
(* of thirteen tweets of one user around New York, followed by up to       *)
(* MaxBurst repetitions of the frame's first tweet.  The tweets: a site of *)
(* four mutually close tweets with a fringe tweet beside it; a second site *)
(* of the same shape and hours, with two more tweets that stretch its      *)
(* shape or its hours; a far tweet; a tweet outside the home period.       *)
(***************************************************************************)
At(day, hour_, lon, lat) ==
    Tweet([day |-> day, hour |-> hour_], <<lon, lat>>)

SiteTweets ==
    << At(2, 2, 0, 0), At(2, 3, 2, 0), At(2, 2, 0, 2), At(2, 3, 2, 2),
       At(2, 2, 5, 0),
       At(2, 2, 100, 0), At(2, 3, 102, 0), At(2, 2, 100, 2), At(2, 3, 102, 2),
       At(2, 4, 103, 2), At(2, 4, 102, 2),
       At(2, 2, 50, 50), At(0, 2, 0, 0) >>

FrameOf(S, burst) ==
    LET picked(i) == i \in S
        idx == SelectSeq([i \in 1..Len(SiteTweets) |-> i], picked)
        base == [k \in 1..Len(idx) |-> SiteTweets[idx[k]]]
    IN  base \o [k \in 1..burst |-> base[1]]

InitDbscan ==
    /\ \E S \in (SUBSET (1..Len(SiteTweets))) \ {{}} :
          \E burst \in 0..MaxBurst : tweets_df = FrameOf(S, burst)
    /\ DbscanEntry
    /\ MainIdle

NextDbscan ==
    \/ RemoveBurstTweets
    \/ HomePeriod
    \/ Cluster
    \/ Aggregate
    \/ DetermineHome

SpecDbscan == InitDbscan /\ [][NextDbscan]_vars

(***************************************************************************)
(* SpecSelect: the home selector on every table of up to MaxClusters       *)
(* aggregates, rows in ascending cluster_id as the aggregator leaves them. *)
(***************************************************************************)
CountValues == {4, 5, 7}
DistValues == {10, 25}
TimeRangeValues == {0, 2 * SECONDS_PER_HOUR}

AggregateTables ==
    UNION { [1..n -> CountValues \X DistValues \X TimeRangeValues] :
            n \in 1..MaxClusters }

TableOf(t) ==
    [i \in 1..Len(t) |->
        [cluster_id |-> i - 1,
         centroid_lon |-> 100 * i,
         centroid_lat |-> 200 * i,
         time_range |-> t[i][3],
         max_dist_from_centroid |-> t[i][2],
         count |-> t[i][1]]]

InitSelect ==
    /\ \E t \in AggregateTables : cluster_aggregates = TableOf(t)
    /\ pc = "aggregated"
    /\ tweets_df = <<>>
    /\ df = <<>>
    /\ results = <<>>
    /\ dbscan_debug_info = [InitialDebugInfo EXCEPT !.clustering_attempted = 1]
    /\ ret = None
    /\ calls = {"dbscan.create", "create_cluster_aggregates"}
    /\ MainIdle

NextSelect == DetermineHome

SpecSelect == InitSelect /\ [][NextSelect]_vars

(***************************************************************************)
(* SpecMeasures: run_all_measures() on every list of up to MaxMeasures     *)
(* measures, each either a scalar measure named n_tweets or unique_days or *)
(* a dict measure (as dbscan_results is) returning values for some of the  *)
(* keys home_cluster_id and n_tweets.                                      *)
(***************************************************************************)
MeasureValues == {1, 2}
ScalarNames == {"n_tweets", "unique_days"}
DictKeys == {"home_cluster_id", "n_tweets"}

ScalarMeasures ==
    {[name |-> n, is_dict |-> FALSE, returns |-> v] :
        n \in ScalarNames, v \in MeasureValues}

DictMeasures ==
    {[name |-> "dbscan_results", is_dict |-> TRUE, returns |-> d] :
        d \in UNION {[K -> MeasureValues] : K \in (SUBSET DictKeys) \ {{}}}}

MeasureLists ==
    UNION {[1..n -> ScalarMeasures \cup DictMeasures] : n \in 1..MaxMeasures}

InitMeasures ==
    /\ measures_ \in MeasureLists
    /\ measure_results = <<>>
    /\ measure_i = 0
    /\ measure_pc = "loop"
    /\ geotweets = {}
    /\ output_file = None
    /\ user_ids = <<>>
    /\ status = "idle"
    /\ run = NoRun
    /\ tweets_df = <<>>
    /\ DbscanEntry

NextMeasures == RunMeasure \/ RunAllMeasuresReturns

SpecMeasures == InitMeasures /\ [][NextMeasures]_vars


(***************************************************************************)
(* Claims about the home selector (checked under SpecSelect)               *)
(***************************************************************************)
Selected == pc = "returned" /\ "determine_home_cluster" \in calls

\* The rows of the table whose column value no other row beats.
Attaining(column, measure) ==
    {i \in 1..Len(cluster_aggregates) :
        \A j \in 1..Len(cluster_aggregates) :
            IF measure = "max"
            THEN cluster_aggregates[j][column] <= cluster_aggregates[i][column]
            ELSE cluster_aggregates[i][column] <= cluster_aggregates[j][column]}

Sole(column, measure) == Cardinality(Attaining(column, measure)) = 1

WinnerOf(column, measure) ==
    cluster_aggregates[CHOOSE i \in Attaining(column, measure) : TRUE].cluster_id

Returned(id, reason) ==
    /\ ret[1].home_cluster_id = Some(id)
    /\ ret[1].home_cluster_reason = Some(reason)

\* C1: determine_home_cluster tries maximum count, then minimum
\* max_dist_from_centroid, then maximum time_range, and returns the cluster
\* that alone attains the extreme of the first criterion that has a sole
\* winner, with that criterion's reason; a single cluster wins with "only one
\* max cluster", and two clusters tied on count with different dispersions
\* give the tighter one with "cluster with minimum distance".
C1_OrderedShortCircuit ==
    Selected =>
        /\ Sole("count", "max") =>
               Returned(WinnerOf("count", "max"), "only one max cluster")
        /\ (~Sole("count", "max") /\ Sole("max_dist_from_centroid", "min")) =>
               Returned(WinnerOf("max_dist_from_centroid", "min"),
                        "cluster with minimum distance")
        /\ (/\ ~Sole("count", "max")
            /\ ~Sole("max_dist_from_centroid", "min")
            /\ Sole("time_range", "max")) =>
               Returned(WinnerOf("time_range", "max"),
                        "cluster with maximum time range")
        /\ Len(cluster_aggregates) = 1 =>
               Returned(cluster_aggregates[1].cluster_id, "only one max cluster")
        /\ (/\ Len(cluster_aggregates) = 2
            /\ cluster_aggregates[1].count = cluster_aggregates[2].count
            /\ cluster_aggregates[1].max_dist_from_centroid
                   < cluster_aggregates[2].max_dist_from_centroid) =>
               Returned(cluster_aggregates[1].cluster_id,
                        "cluster with minimum distance")

\* C1 witness: two clusters tied on count 5, dispersions 10 and 25, and the
\* selector has returned the tighter one by the second criterion.
C1_Witness ==
    /\ Selected
    /\ Len(cluster_aggregates) = 2
    /\ cluster_aggregates[1].count = 5 /\ cluster_aggregates[2].count = 5
    /\ cluster_aggregates[1].max_dist_from_centroid = 25
    /\ cluster_aggregates[2].max_dist_from_centroid = 10
    /\ Returned(1, "cluster with minimum distance")

\* C2: on a non-empty table the selector returns (None, None) exactly when
\* all three criteria are tied; a null id comes with a null reason and never
\* with -1, and the selector never returns -1.
C2_UndecidedIffAllTied ==
    Selected =>
        /\ (ret[1].home_cluster_id = None /\ ret[1].home_cluster_reason = None)
               <=> (/\ ~Sole("count", "max")
                    /\ ~Sole("max_dist_from_centroid", "min")
                    /\ ~Sole("time_range", "max"))
        /\ (ret[1].home_cluster_id = None) <=> (ret[1].home_cluster_reason = None)
        /\ ret[1].home_cluster_id # Some(-1)

\* C2 witness: every criterion is tied between two clusters and the selector
\* has returned the undecided pair.
C2_Witness ==
    /\ Selected
    /\ Len(cluster_aggregates) >= 2
    /\ ~Sole("count", "max")
    /\ ~Sole("max_dist_from_centroid", "min")
    /\ ~Sole("time_range", "max")
    /\ ret[1].home_cluster_id = None
    /\ ret[1].home_cluster_reason = None


(***************************************************************************)
(* Claims about preprocessing (checked under SpecPre)                      *)
(***************************************************************************)
Tuple(r) == <<r.created_at, r.lon, r.lat>>

\* C6: burst-tweet removal keeps exactly one record per distinct
\* (created_at, longitude, latitude): the result is no longer than the input,
\* no two of its records share a tuple, every tuple of the input is still
\* there, and n_burst_tweets is the number of records removed.
C6_Deduplication ==
    pc = "deduplicated" =>
        /\ Len(df) <= Len(tweets_df)
        /\ \A i, j \in 1..Len(df) : Tuple(df[i]) = Tuple(df[j]) => i = j
        /\ {Tuple(df[i]) : i \in 1..Len(df)}
               = {Tuple(tweets_df[i]) : i \in 1..Len(tweets_df)}
        /\ Range(df) \subseteq Range(tweets_df)
        /\ dbscan_debug_info.n_burst_tweets = Len(tweets_df) - Len(df)

\* C6 witness: a frame of three tweets, two of them the same tuple and one at
\* the same time elsewhere, deduplicated to two rows with one burst tweet.
C6_Witness ==
    /\ pc = "deduplicated"
    /\ Len(tweets_df) = 3
    /\ Tuple(tweets_df[1]) = Tuple(tweets_df[3])
    /\ tweets_df[1].created_at = tweets_df[2].created_at
    /\ tweets_df[1].lon # tweets_df[2].lon
    /\ Len(df) = 2
    /\ dbscan_debug_info.n_burst_tweets = 1

AfterHomePeriod ==
    pc = "filtered" \/ (pc = "returned" /\ "dbscan.create" \notin calls)

\* C7: every record the home-period filter retains has a local hour of 21 or
\* later.
C7_EveningOnly ==
    AfterHomePeriod => \A i \in 1..Len(df) : hour(df[i].dt) >= 21

\* C8: every record the home-period filter retains has a local weekday in
\* Monday..Thursday and a local hour at or above the filter's threshold,
\* n_home_period_tweets is the number of retained records, and filtering the
\* filter's output again removes nothing.
C8_HomePeriodFilter ==
    AfterHomePeriod =>
        /\ \A i \in 1..Len(df) :
               /\ weekday(df[i].dt) \in 0..3
               /\ hour(df[i].dt) >= HOME_MIN_HOUR
        /\ dbscan_debug_info.n_home_period_tweets = Len(df)
        /\ HomePeriodFilter(df) = df

\* C8 witness: the filter has kept a tweet that is on Friday in UTC and on
\* Thursday at 21:00 in New York, and dropped a Friday-evening tweet at sea.
C8_Witness ==
    /\ pc = "filtered"
    /\ Len(df) = 1
    /\ df[1].created_at = [day |-> 4, hour |-> 2]
    /\ df[1].lon = 10
    /\ weekday(df[1].dt) = 3 /\ hour(df[1].dt) = 21
    /\ \E i \in 1..Len(tweets_df) :
           /\ tweets_df[i].created_at = [day |-> 4, hour |-> 22]
           /\ tweets_df[i].lon = -10
    /\ dbscan_debug_info.n_home_period_tweets = 1

(***************************************************************************)
(* Claims about dbscan() as a whole (checked under SpecDbscan)             *)
(***************************************************************************)
\* The tweets of the argument that fall in the home period.
Survivors ==
    {i \in 1..Len(tweets_df) :
        LET dt == get_localized_dt(tweets_df[i])
        IN  weekday(dt) <= HOME_MAX_WEEKDAY /\ hour(dt) >= HOME_MIN_HOUR}

NullHome(reason) ==
    /\ ret[1].home_cluster_id = Some(-1)
    /\ ret[1].home_cluster_reason = Some(reason)
    /\ ret[1].home_cluster_centroid_lon = None
    /\ ret[1].home_cluster_centroid_lat = None
    /\ ret[1].home_cluster_count = None

\* C3: when no record survives deduplication and the home-period filter,
\* dbscan() returns -1 with "no tweets in desired time range" and null
\* centroid and count, with clustering_attempted still 0 and without running
\* the clusterer, the aggregator or the selector.
C3_NoTweetsInRange ==
    (Survivors = {} /\ pc \notin {"start", "deduplicated"}) =>
        /\ pc = "returned"
        /\ NullHome("no tweets in desired time range")
        /\ ret[1].clustering_attempted = 0
        /\ dbscan_debug_info.clustering_attempted = 0
        /\ calls = {}
        /\ results = <<>> /\ cluster_aggregates = <<>>

\* C3 witness: a frame holding only the tweet outside the home period (with
\* its burst copy) has been returned from.
C3_Witness ==
    /\ pc = "returned"
    /\ Len(tweets_df) = 2
    /\ Survivors = {}
    /\ ret[1].n_burst_tweets = 1
    /\ ret[1].n_home_period_tweets = 0

AllNoise == \A i \in 1..Len(results) : results[i].type = "noise"

\* C4: when clustering ran on a non-empty home-period frame and labelled
\* every point noise, dbscan() returns -1 with "no clusters" and null centroid
\* and count, and neither the aggregator nor the selector has run.
C4_NoClusters ==
    ("dbscan.create" \in calls /\ Len(df) > 0 /\ AllNoise) =>
        /\ pc = "returned"
        /\ NullHome("no clusters")
        /\ calls = {"dbscan.create"}
        /\ cluster_aggregates = <<>>

\* C4 witness: three home-period tweets, pairwise further apart than EPS,
\* were all labelled noise and the function has returned.
C4_Witness ==
    /\ pc = "returned"
    /\ "dbscan.create" \in calls
    /\ Len(df) = 3
    /\ \A i, j \in 1..Len(df) : i # j => dist2(df[i], df[j]) > EPS * EPS
    /\ AllNoise

\* C5: on every return of dbscan() with clustering_attempted = 1 the core,
\* boundary and noise counters are integers (0 for a type that does not
\* occur), each the number of points of its type, and they add up to the
\* number of points given to the clusterer, which is n_home_period_tweets.
C5_TypeCounters ==
    (pc = "returned" /\ ret[1].clustering_attempted = 1) =>
        /\ \A t \in Range(DBSCAN_CLUSTER_TYPES) :
               LET n == IF t = "core" THEN ret[1].n_dbscan_core_tweets
                        ELSE IF t = "boundary" THEN ret[1].n_dbscan_boundary_tweets
                        ELSE ret[1].n_dbscan_noise_tweets
               IN  /\ n # None
                   /\ n[1] = Cardinality({i \in 1..Len(results) : results[i].type = t})
        /\ ret[1].n_dbscan_core_tweets[1] + ret[1].n_dbscan_boundary_tweets[1]
               + ret[1].n_dbscan_noise_tweets[1] = Len(df)
        /\ Len(df) = ret[1].n_home_period_tweets
        /\ Len(results) = Len(df)

\* C5 witness: a return after a clustering that found core, boundary and
\* noise points.
C5_Witness ==
    /\ pc = "returned"
    /\ ret[1].clustering_attempted = 1
    /\ ret[1].n_dbscan_core_tweets[1] > 0
    /\ ret[1].n_dbscan_boundary_tweets[1] > 0
    /\ ret[1].n_dbscan_noise_tweets[1] > 0


(***************************************************************************)
(* Claims about main() (checked under Spec)                                *)
(***************************************************************************)
Rows == IF output_file = None THEN <<>> ELSE output_file[1]

\* C9: across any runs of main() against one output file, no user id ever
\* appears in more than one row of the file (a user id already in the file is
\* skipped).
C9_OneRowPerUser ==
    \A i, j \in 1..Len(Rows) : Rows[i].user_id = Rows[j].user_id => i = j

\* The rows a run writes for the ids its loop has visited.
RowsFor(visited) ==
    LET hasTweets(id) == ValueOf(id) \in geotweets
        written == SelectSeq(visited, hasTweets)
    IN  [k \in 1..Len(written) |-> [user_id |-> ValueOf(written[k])]]

InRun(u) == \E k \in 1..Len(run.ids) : ValueOf(run.ids[k]) = u

\* C10 as claimed: when a user's processing has raised, every other user of
\* that run who has tweets still gets a row.
C10_OthersStillProcessed ==
    run.raised # None =>
        \A u \in geotweets :
            (u # ValueOf(run.raised[1]) /\ InRun(u)) =>
                \E i \in 1..Len(Rows) : Rows[i].user_id = u

\* C10 as amended: an exception raised by the query or a measure while
\* processing one user ends the whole run of main(): no row is written for
\* that user or for the users the loop had not reached, and the output file
\* holds exactly the rows it held at the start of the run followed by the
\* rows of the users processed before the exception.
C10_ExceptionEndsRun ==
    run.raised # None =>
        /\ status = "raised"
        /\ user_ids = <<>>
        /\ Rows = run.rows_at_start \o RowsFor(run.visited)
        /\ \A k \in 1..Len(run.visited) : run.visited[k] # run.raised[1]

\* C10 witness: a run over three users raised at its second one: the first
\* user's row is in the file and the third user, who has tweets, has none.
C10_Witness ==
    /\ status = "raised"
    /\ Len(run.ids) = 3
    /\ Len(run.visited) = 1
    /\ ValueOf(run.visited[1]) \in geotweets
    /\ Len(Rows) = Len(run.rows_at_start) + 1
    /\ \E u \in geotweets :
           /\ InRun(u)
           /\ u # ValueOf(run.raised[1])
           /\ \A i \in 1..Len(Rows) : Rows[i].user_id # u

(***************************************************************************)
(* The scope of the tie-breaks (checked under SpecSelect)                  *)
(***************************************************************************)
AllClusters == 1..Len(cluster_aggregates)
MaxCount == PyMax({cluster_aggregates[i].count : i \in AllClusters})
TiedForMaxCount == {i \in AllClusters : cluster_aggregates[i].count = MaxCount}

\* The rows strictly tighter than, or strictly longer-lived than, every other
\* row of the whole table.
TightestOfAll ==
    {i \in AllClusters :
        \A j \in AllClusters \ {i} :
            cluster_aggregates[i].max_dist_from_centroid
                < cluster_aggregates[j].max_dist_from_centroid}
LongestOfAll ==
    {i \in AllClusters :
        \A j \in AllClusters \ {i} :
            cluster_aggregates[i].time_range > cluster_aggregates[j].time_range}

\* C14: when two or more clusters attain the maximum count, the dispersion
\* and time-range tie-breaks range over all clusters, not over the tied ones:
\* the cluster strictly tightest of the whole table is returned, or, when
\* there is none, the cluster with the strictly longest time range of the
\* whole table, whatever its count; when there is neither, no cluster is
\* returned.
C14_TieBreaksOverAllClusters ==
    (Selected /\ Cardinality(TiedForMaxCount) >= 2) =>
        /\ \A i \in TightestOfAll :
               Returned(cluster_aggregates[i].cluster_id,
                        "cluster with minimum distance")
        /\ TightestOfAll = {} =>
               \A i \in LongestOfAll :
                   Returned(cluster_aggregates[i].cluster_id,
                            "cluster with maximum time range")
        /\ (TightestOfAll = {} /\ LongestOfAll = {}) =>
               ret[1].home_cluster_id = None

\* C14 witness: two clusters share the maximum count and the cluster returned
\* as home, for its minimum distance, has a strictly smaller count.
C14_Witness ==
    /\ Selected
    /\ Cardinality(TiedForMaxCount) >= 2
    /\ ret[1].home_cluster_reason = Some("cluster with minimum distance")
    /\ \E i \in AllClusters \ TiedForMaxCount :
           /\ ret[1].home_cluster_id = Some(cluster_aggregates[i].cluster_id)
           /\ ret[1].home_cluster_count = Some(cluster_aggregates[i].count)
           /\ cluster_aggregates[i].count < MaxCount

(***************************************************************************)
(* Claims about the home decision dbscan() returns (checked under          *)
(* SpecDbscan)                                                             *)
(***************************************************************************)
\* The tie-break policy selected a home cluster: the selector ran and one of
\* its criteria has a sole winner in the aggregate table.
PolicySelected ==
    /\ "determine_home_cluster" \in calls
    /\ \/ Sole("count", "max")
       \/ Sole("max_dist_from_centroid", "min")
       \/ Sole("time_range", "max")

\* The rows of the aggregate table with the returned home_cluster_id.
HomeRows ==
    {i \in 1..Len(cluster_aggregates) :
        Some(cluster_aggregates[i].cluster_id) = ret[1].home_cluster_id}

\* C12: in the result of dbscan(), home_cluster_centroid_lon,
\* home_cluster_centroid_lat and home_cluster_count are non-null exactly when
\* the tie-break policy selected a home cluster, and then they are the
\* centroid_lon, centroid_lat and count of the one aggregate whose cluster_id
\* is home_cluster_id; in the undecided case (null id) and in both -1
\* sentinel cases all three are null.
C12_HomeFiguresFromWinner ==
    pc = "returned" =>
        /\ (ret[1].home_cluster_centroid_lon # None) <=> PolicySelected
        /\ (ret[1].home_cluster_centroid_lat # None) <=> PolicySelected
        /\ (ret[1].home_cluster_count # None) <=> PolicySelected
        /\ PolicySelected =>
               /\ Cardinality(HomeRows) = 1
               /\ \A i \in HomeRows :
                      /\ ret[1].home_cluster_centroid_lon =
                             Some(cluster_aggregates[i].centroid_lon)
                      /\ ret[1].home_cluster_centroid_lat =
                             Some(cluster_aggregates[i].centroid_lat)
                      /\ ret[1].home_cluster_count =
                             Some(cluster_aggregates[i].count)
        /\ ~PolicySelected =>
               ret[1].home_cluster_id \in {None, Some(-1)}

\* C12 witness: of two clusters the second (cluster_id 1) was selected, and
\* the result carries its count and centroid, which differ from those of the
\* first row of the table.
C12_Witness ==
    /\ pc = "returned"
    /\ Len(cluster_aggregates) = 2
    /\ ret[1].home_cluster_id = Some(1)
    /\ ret[1].home_cluster_count = Some(cluster_aggregates[2].count)
    /\ ret[1].home_cluster_centroid_lon = Some(cluster_aggregates[2].centroid_lon)
    /\ cluster_aggregates[1].count # cluster_aggregates[2].count
    /\ cluster_aggregates[1].centroid_lon # cluster_aggregates[2].centroid_lon

(***************************************************************************)
(* Claims about the cluster aggregates (checked under SpecDbscan)          *)
(***************************************************************************)
Aggregated == "create_cluster_aggregates" \in calls

\* The clustered rows of a type, and those of them in cluster c.
PointsOfType(t) == {i \in 1..Len(results) : results[i].type = t}
CoreOf(c) == {i \in PointsOfType("core") : results[i].cluster_id = Some(c)}
CoreClusterIds == {results[i].cluster_id[1] : i \in PointsOfType("core")}

\* C13: the aggregate table is computed from the core points only: it has
\* exactly one row per cluster id occurring among the core points, in
\* ascending cluster id; a row's count is the number of core points of its
\* cluster, and its centroid and time range are those of these core points
\* alone (boundary and noise points contribute nothing); the counts add up
\* to n_dbscan_core_tweets.
C13_AggregatesFromCorePoints ==
    Aggregated =>
        /\ {cluster_aggregates[k].cluster_id : k \in 1..Len(cluster_aggregates)}
               = CoreClusterIds
        /\ Len(cluster_aggregates) = Cardinality(CoreClusterIds)
        /\ \A k, l \in 1..Len(cluster_aggregates) :
               k < l => cluster_aggregates[k].cluster_id
                            < cluster_aggregates[l].cluster_id
        /\ \A k \in 1..Len(cluster_aggregates) :
               LET a == cluster_aggregates[k]
                   core == CoreOf(a.cluster_id)
               IN  /\ a.count = Cardinality(core)
                   /\ a.centroid_lon * a.count =
                          CentroidScale * SumOver(core, [i \in core |-> df[i].lon])
                   /\ a.centroid_lat * a.count =
                          CentroidScale * SumOver(core, [i \in core |-> df[i].lat])
                   /\ a.time_range =
                          (PyMax({df[i].dt.utc : i \in core})
                              - PyMin({df[i].dt.utc : i \in core}))
                          * SECONDS_PER_HOUR
        /\ SumOver(1..Len(cluster_aggregates),
                   [k \in 1..Len(cluster_aggregates) |-> cluster_aggregates[k].count])
               = dbscan_debug_info.n_dbscan_core_tweets[1]

\* C13 witness: two clusters were aggregated while a boundary point of the
\* first cluster and a noise point were among the clustered rows: the first
\* row counts the cluster's core points only.
C13_Witness ==
    /\ Aggregated
    /\ Len(cluster_aggregates) = 2
    /\ PointsOfType("noise") # {}
    /\ \E i \in PointsOfType("boundary") :
           /\ results[i].cluster_id = Some(cluster_aggregates[1].cluster_id)
           /\ cluster_aggregates[1].count
                  < Cardinality({j \in 1..Len(results) :
                                    results[j].cluster_id = results[i].cluster_id})

(***************************************************************************)
(* Claims about the merge of the measures (checked under SpecMeasures)     *)
(***************************************************************************)
\* The measures the loop has run that emit key k.
Emitters(k) ==
    {j \in 1..measure_i : k \in DOMAIN return_value(measures_[j])}

\* C11: in the record run_all_measures merges, a later measure never
\* overwrites a key written by an earlier one: every key carries the value
\* of each measure that emitted it, so a key emitted by two measures is not
\* settled by the last writer winning.
C11_NoSilentOverwrite ==
    \A k \in DOMAIN measure_results :
        \A j \in Emitters(k) :
            measure_results[k] = return_value(measures_[j])[k]

============================================================================
